---- MODULE Spec2Model ----
(***************************************************************************)
(* Model of scripts/scrape.py: a command-line wrapper that turns argv and  *)
(* JSON strings into calls of a crawling library and prints the normalised *)
(* results as JSON on standard output.                                     *)
(*                                                                         *)
(* The process is modelled from module import to process exit.  The        *)
(* library (crawl4ai) and the operating system are the environment: what   *)
(* a fetch returns or raises, the order in which fetches complete, and an  *)
(* interrupt during the fetch are nondeterministic choices.  Everything    *)
(* the script itself computes (argument handling, validate_url, result     *)
(* normalisation, error-to-JSON formatting, exit codes) is computed as the *)
(* code computes it.                                                       *)
(***************************************************************************)
EXTENDS Integers, Sequences, FiniteSets, TLC

VARIABLES
    argv,            \* sys.argv (Python index k is argv[k+1])
    pc,              \* position of the process
    stdout,          \* JSON values written to standard output, in order
    exitCode,        \* process exit status, Running while the process lives
    urls,            \* main/batch_crawl_native: the parsed URL list
    config_options,  \* main: the parsed batch config / single-mode config
    called,          \* which of scrape_url / batch_crawl_native were invoked
    network,         \* indices of urls for which a library fetch was started
    pending,         \* batch: indices of fetches that have not completed yet
    crawled,         \* batch: what the library produced for urls[j]
    results,         \* batch_crawl_native: the results list being built
    batch_exception  \* batch_crawl_native: the exception caught at line 170

vars == <<argv, pc, stdout, exitCode, urls, config_options, called, network,
          pending, crawled, results, batch_exception>>

(***************************************************************************)
(* Bounds of the model.                                                    *)
(***************************************************************************)
MaxUrls == 2          \* longest URL list passed with --urls

(***************************************************************************)
(* Values.                                                                 *)
(***************************************************************************)
Null    == "<None>"       \* Python None / JSON null
Absent  == "<absent>"     \* a key or attribute that is not there
Running == -1             \* exitCode while the process has not exited
ExitSigint == 130         \* death by SIGINT (unhandled KeyboardInterrupt)
NoStatus == -2            \* a result object without a status_code attribute

Str(s) == [t |-> "str", s |-> s]
Num(s) == [t |-> "num", s |-> s]

\* URL texts used as inputs.
UrlTexts == { "", "not-a-url", "http://a.b", "http://abcde",
              "http://a.io", "https://b.io", " http://a.io" }

\* Items that may appear in the JSON array passed with --urls.
UrlItems == { Str(u) : u \in UrlTexts } \cup { Num("5") }

SeqsUpTo(S, n) == UNION { [1..k -> S] : k \in 0..n }

ListValues == { [t |-> "list", items |-> s] : s \in SeqsUpTo(UrlItems, MaxUrls) }

DictValues == [ t : {"dict"},
                strategy    : {Absent, "http"},
                stream_mode : {Absent, "true"},
                cache_mode  : {Absent, "BOGUS"} ]

(***************************************************************************)
(* String helpers: str.startswith, "." in url, str.strip.                  *)
(***************************************************************************)
startswith(s, prefix) ==
    /\ Len(s) >= Len(prefix)
    /\ SubSeq(s, 1, Len(prefix)) = prefix

contains(s, c) == \E i \in 1..Len(s) : SubSeq(s, i, i) = c

RECURSIVE lstrip(_)
lstrip(s) ==
    IF Len(s) > 0 /\ SubSeq(s, 1, 1) = " "
      THEN lstrip(SubSeq(s, 2, Len(s)))
      ELSE s

RECURSIVE rstrip(_)
rstrip(s) ==
    IF Len(s) > 0 /\ SubSeq(s, Len(s), Len(s)) = " "
      THEN rstrip(SubSeq(s, 1, Len(s) - 1))
      ELSE s

strip(s) == rstrip(lstrip(s))

(***************************************************************************)
(* JSON texts: json.dumps builds the text of a value, json.loads parses a *)
(* text into the value it denotes or raises JSONDecodeError.              *)
(***************************************************************************)
RECURSIVE JoinItems(_)
DumpsItem(v) == IF v.t = "str" THEN "\"" \o v.s \o "\"" ELSE v.s

JoinItems(s) ==
    IF Len(s) = 0 THEN ""
    ELSE IF Len(s) = 1 THEN DumpsItem(s[1])
    ELSE DumpsItem(s[1]) \o ", " \o JoinItems(Tail(s))

DumpsList(v) == "[" \o JoinItems(v.items) \o "]"

DictPairs(v) ==
    (IF v.strategy = Absent THEN <<>>
     ELSE << Str("\"strategy\": \"" \o v.strategy \o "\"") >>)
    \o (IF v.stream_mode = Absent THEN <<>>
        ELSE << Str("\"stream_mode\": " \o v.stream_mode) >>)
    \o (IF v.cache_mode = Absent THEN <<>>
        ELSE << Str("\"cache_mode\": \"" \o v.cache_mode \o "\"") >>)

RECURSIVE JoinPairs(_)
JoinPairs(s) ==
    IF Len(s) = 0 THEN ""
    ELSE IF Len(s) = 1 THEN s[1].s
    ELSE s[1].s \o ", " \o JoinPairs(Tail(s))

DumpsDict(v) == "{" \o JoinPairs(DictPairs(v)) \o "}"

JSONDecodeError == [t |-> "JSONDecodeError", s |-> "Expecting value"]

\* s.find(sep), 1-based, 0 when sep does not occur in s
Find(s, sep) ==
    LET at == { k \in 1..(Len(s) - Len(sep) + 1) :
                  SubSeq(s, k, k + Len(sep) - 1) = sep }
    IN IF at = {} THEN 0 ELSE CHOOSE k \in at : \A m \in at : k <= m

RECURSIVE Split(_, _)
SplitAt(s, sep, k) ==
    IF k = 0 THEN <<s>>
    ELSE <<SubSeq(s, 1, k - 1)>> \o Split(SubSeq(s, k + Len(sep), Len(s)), sep)

\* s.split(sep)
Split(s, sep) == SplitAt(s, sep, Find(s, sep))

Enclosed(s, open, close) ==
    /\ Len(s) >= 2
    /\ SubSeq(s, 1, 1) = open
    /\ SubSeq(s, Len(s), Len(s)) = close

Inner(s) == SubSeq(s, 2, Len(s) - 1)

Digits(s) ==
    /\ Len(s) > 0
    /\ \A k \in 1..Len(s) :
          SubSeq(s, k, k) \in {"0", "1", "2", "3", "4", "5", "6", "7", "8", "9"}

\* a string, a number or a literal
ParseValue(text) ==
    IF Enclosed(text, "\"", "\"") /\ ~contains(Inner(text), "\"")
      THEN Str(Inner(text))
    ELSE IF Digits(text) THEN Num(text)
    ELSE IF text \in {"true", "false", "null"} THEN [t |-> "lit", s |-> text]
    ELSE JSONDecodeError

ListOf(items) ==
    IF \E k \in 1..Len(items) : items[k].t = "JSONDecodeError"
      THEN JSONDecodeError
      ELSE [t |-> "list", items |-> items]

ParseItems(parts) == [k \in 1..Len(parts) |-> ParseValue(parts[k])]

ParseList(text) ==
    IF Inner(text) = "" THEN [t |-> "list", items |-> <<>>]
    ELSE ListOf(ParseItems(Split(Inner(text), ", ")))

\* one "key": value member of an object
PairOf(k, v) ==
    [ ok  |-> k.t = "str" /\ v.t # "JSONDecodeError", key |-> k.s, val |-> v.s ]

ParsePairAt(text, c) ==
    IF c = 0 THEN [ok |-> FALSE, key |-> "", val |-> ""]
    ELSE PairOf(ParseValue(SubSeq(text, 1, c - 1)),
                ParseValue(SubSeq(text, c + 2, Len(text))))

ParsePair(text) == ParsePairAt(text, Find(text, ": "))

ParsePairs(parts) == [k \in 1..Len(parts) |-> ParsePair(parts[k])]

\* dict.get(key), Absent when the key is not there
DictGet(pairs, key) ==
    IF \A k \in 1..Len(pairs) : pairs[k].key # key THEN Absent
    ELSE pairs[CHOOSE k \in 1..Len(pairs) : pairs[k].key = key].val

\* the object as the mapping of the three keys batch_crawl_native reads
DictOf(pairs) ==
    IF \E k \in 1..Len(pairs) : ~pairs[k].ok THEN JSONDecodeError
    ELSE [ t |-> "dict",
           strategy    |-> DictGet(pairs, "strategy"),
           stream_mode |-> DictGet(pairs, "stream_mode"),
           cache_mode  |-> DictGet(pairs, "cache_mode") ]

ParseDict(text) ==
    IF Inner(text) = "" THEN DictOf(<<>>)
    ELSE DictOf(ParsePairs(Split(Inner(text), ", ")))

json_loads(text) ==
    IF Enclosed(text, "[", "]") THEN ParseList(text)
    ELSE IF Enclosed(text, "{", "}") THEN ParseDict(text)
    ELSE ParseValue(text)

(***************************************************************************)
(* Command lines the process is started with.                              *)
(***************************************************************************)
Script    == "scrape.py"
BatchFlag == "--native-batch-crawl"

UrlsTexts   == { DumpsList(v) : v \in ListValues } \cup { "\"x\"", "{}", "[bad" }
ConfigTexts == { DumpsDict(v) : v \in DictValues } \cup { "5", "{bad" }
SingleConfigTexts == { "{}", "{\"strategy\": \"http\"}", "5", "{bad" }

U0 == "[\"http://a.io\"]"
C0 == "{}"

ArgvSamples ==
    { <<Script>> }
    \cup { <<Script, u>> : u \in UrlTexts }
    \cup { <<Script, u, c>> : u \in UrlTexts, c \in SingleConfigTexts }
    \cup { <<Script, BatchFlag, "--urls", u, "--config", c>> :
               u \in UrlsTexts, c \in ConfigTexts }
    \cup { <<Script, BatchFlag>>,
           <<Script, BatchFlag, "--urls", U0>>,
           <<Script, BatchFlag, "--urls", U0, "--config">>,
           <<Script, BatchFlag, "--urls", U0, "--conf", C0>>,
           <<Script, BatchFlag, "--list", U0, "--config", C0>>,
           <<Script, BatchFlag, "--config", C0, "--urls", U0>>,
           <<Script, BatchFlag, U0, C0, "--config", "--urls">>,
           <<Script, BatchFlag, "--urls", U0, "x", "--config">> }

\* sys.argv[k], len(sys.argv), x in sys.argv, sys.argv.index(x)
Arg(k)      == argv[k + 1]
ArgLen      == Len(argv)
InArgv(x)   == \E i \in 1..Len(argv) : argv[i] = x
ArgIndex(x) == (CHOOSE i \in 1..Len(argv) :
                    /\ argv[i] = x
                    /\ \A j \in 1..(i - 1) : argv[j] # x) - 1

(***************************************************************************)
(* validate_url: the pair (is_valid, error_msg), or the exception raised   *)
(* when the value is not a string.                                         *)
(***************************************************************************)
Falsy(url) == (url.t = "str" /\ url.s = "") \/ (url.t = "num" /\ url.s = "0")

validate_url(url) ==
    IF Falsy(url)
      THEN [exc |-> Null, ok |-> FALSE, msg |-> "URL cannot be empty"]
    ELSE IF url.t # "str"
      THEN [exc |-> "'int' object has no attribute 'startswith'",
            ok |-> FALSE, msg |-> ""]
    ELSE IF ~(startswith(url.s, "http://") \/ startswith(url.s, "https://"))
      THEN [exc |-> Null, ok |-> FALSE,
            msg |-> "URL must start with http:// or https://"]
    ELSE IF ~(contains(url.s, ".") /\ Len(url.s) > 10)
      THEN [exc |-> Null, ok |-> FALSE, msg |-> "URL appears to be malformed"]
    ELSE [exc |-> Null, ok |-> TRUE, msg |-> ""]

Accepted(url) == validate_url(url).exc = Null /\ validate_url(url).ok

(***************************************************************************)
(* What the library hands back.  An attribute the code probes with hasattr *)
(* or getattr may be there or not; error_message None stands for both an   *)
(* absent attribute and one that is None.                                  *)
(***************************************************************************)
Html     == "<p>hi</p>"
Markdown == "# hi"

\* http_strategy.crawl(url): raises, or returns a response object
HttpResponses ==
    { [exc |-> Null, has_success |-> hs, success |-> sc, html |-> h,
       markdown |-> m, error_message |-> e] :
         hs \in BOOLEAN, sc \in BOOLEAN, h \in {Absent, Html},
         m \in {Absent, Markdown}, e \in {Null, "timeout"} }

\* success is TRUE where the attribute is absent, and only a response that
\* reports success false carries an error message
HttpOutcomes ==
    { r \in HttpResponses :
        /\ r.has_success \/ r.success
        /\ r.error_message # Null => (r.has_success /\ ~r.success) }
    \cup { [exc |-> "boom", has_success |-> FALSE, success |-> TRUE,
            html |-> Absent, markdown |-> Absent, error_message |-> Null] }

\* crawler.arun / crawler.arun_many: one CrawlResult; markdown may be None
CrawlResults ==
    [ success : BOOLEAN, markdown : {Null, "", Markdown},
      error_message : {Null, "timeout"}, status_code : {NoStatus, 404},
      title : {Absent, "", "T"}, metadata_title : {Absent, "M"} ]

\* the CrawlResult shapes used for batches: title and status_code not set
BatchCrawlResults ==
    { r \in CrawlResults : /\ r.status_code = NoStatus /\ r.title = Absent
                           /\ r.metadata_title = Absent }

getattr(v, default) == IF v = Absent THEN default ELSE v

\* getattr(result, 'status_code', 200)
StatusCode(result) ==
    IF result.status_code = NoStatus THEN 200 ELSE result.status_code

\* what is known of the fetch of one URL, kept to state what a Result
\* should report: did it raise, did it end well, its content and its error
Fetched(o) ==
    [ exc |-> o.exc,
      ok  |-> o.exc = Null /\ (IF o.has_success THEN o.success ELSE TRUE),
      html |-> IF o.exc = Null THEN o.html ELSE Absent,
      error_message |-> o.error_message ]

NotFetched == [exc |-> Null, ok |-> FALSE, html |-> Absent, error_message |-> Null]

(***************************************************************************)
(* Result objects.                                                         *)
(***************************************************************************)
Result(success, markdown, url, status_code, title, content_length, error) ==
    [ success |-> success, markdown |-> markdown, url |-> url,
      status_code |-> status_code, title |-> title,
      content_length |-> content_length, error |-> error ]

FailedResult(url, error) == Result(FALSE, "", url, 0, "", 0, error)

\* lines 99-107: the dict built in the try of the HTTP streaming loop
HttpStreamFormatted(result, url) ==
    Result(IF result.has_success THEN result.success ELSE TRUE,
           IF result.html # Absent THEN result.html
                                   ELSE getattr(result.markdown, ""),
           url, 200, "",
           IF result.html # Absent THEN Len(result.html) ELSE 0,
           result.error_message)

\* line 102: tasks.index(task).  asyncio.as_completed yields its own
\* awaitables, never the elements of tasks, so list.index raises ValueError.
NotInList == "<coroutine object as_completed.<locals>._wait_for_one> is not in list"

tasks_index(j) == [exc |-> NotInList, idx |-> 0]

\* HttpStreamTurn with urls[0] for urls[i] in the except branch
HttpStreamTurn_first(result, i, j) ==
    IF result.exc # Null
      THEN FailedResult(IF i < Len(urls) THEN urls[1].s ELSE "",
                        "HTTP strategy error: " \o result.exc)
    ELSE IF tasks_index(j).exc # Null
      THEN FailedResult(IF i < Len(urls) THEN urls[1].s ELSE "",
                        "HTTP strategy error: " \o tasks_index(j).exc)
    ELSE HttpStreamFormatted(result, urls[tasks_index(j).idx + 1].s)

\* lines 96-118: one turn of the HTTP streaming loop; i is the enumerate
\* index (0-based), j the position in tasks of the fetch that completed
HttpStreamTurn(result, i, j) ==
    IF result.exc # Null
      THEN FailedResult(IF i < Len(urls) THEN urls[i + 1].s ELSE "",
                        "HTTP strategy error: " \o result.exc)
    ELSE IF tasks_index(j).exc # Null
      THEN FailedResult(IF i < Len(urls) THEN urls[i + 1].s ELSE "",
                        "HTTP strategy error: " \o tasks_index(j).exc)
    ELSE HttpStreamFormatted(result, urls[tasks_index(j).idx + 1].s)

\* HttpGatherFormatted with the markdown expression of the streaming loop
\* (line 101), which falls back to the markdown attribute
HttpGatherFormatted_fallback(result, url) ==
    IF result.exc # Null
      THEN Result(FALSE, "", url, 0, "", 0, result.exc)
      ELSE Result(IF result.has_success THEN result.success ELSE TRUE,
                  IF result.html # Absent THEN result.html
                                          ELSE getattr(result.markdown, ""),
                  url, 200, "",
                  IF result.html # Absent THEN Len(result.html) ELSE 0,
                  result.error_message)

\* lines 124-135: one element of the list built from asyncio.gather
HttpGatherFormatted(result, url) ==
    IF result.exc # Null
      THEN Result(FALSE, "", url, 0, "", 0, result.exc)
      ELSE Result(IF result.has_success THEN result.success ELSE TRUE,
                  IF result.html # Absent THEN result.html ELSE "",
                  url, 200, "",
                  IF result.html # Absent THEN Len(result.html) ELSE 0,
                  result.error_message)

\* lines 143-151 and 158-166: one CrawlResult of arun_many; raises
\* AttributeError when a successful result has markdown None
NoRawMarkdown == "'NoneType' object has no attribute 'raw_markdown'"

BrowserRaises(result) == result.success /\ result.markdown = Null

BrowserFormatted(result, url) ==
    Result(result.success,
           IF result.success THEN result.markdown ELSE "",
           url,
           StatusCode(result),
           getattr(result.title, ""),
           IF result.success THEN Len(result.markdown) ELSE 0,
           IF ~result.success THEN result.error_message ELSE Null)

\* BatchFailed returning one failed Result instead of one per URL
BatchFailed_single(e) ==
    << FailedResult(urls[1].s, "Batch crawler exception: " \o e) >>

\* lines 170-183: the batch call failed as a whole
BatchFailed(e) ==
    [ k \in 1..Len(urls) |->
        FailedResult(urls[k].s, "Batch crawler exception: " \o e) ]

\* lines 234-249: scrape_url's normalisation of the CrawlResult
NoLen == "object of type 'NoneType' has no len()"

ScrapeTitle(result) ==
    IF result.title # Absent /\ result.title # "" THEN result.title
    ELSE IF result.metadata_title # Absent THEN result.metadata_title
    ELSE ""

ScrapeRaisesOn(result) == result.success /\ result.markdown = Null

ScrapeFormatted(result, url) ==
    Result(result.success,
           IF result.success THEN result.markdown ELSE "",
           url,
           StatusCode(result),
           ScrapeTitle(result),
           IF result.success THEN Len(result.markdown) ELSE 0,
           IF ~result.success THEN result.error_message ELSE Null)

\* lines 251-260
ScrapeFailed(url, e) == FailedResult(url, "Crawler exception: " \o e)

(***************************************************************************)
(* The JSON objects main prints on its failure paths, and process exit.    *)
(***************************************************************************)
ExitFailure == 1      \* sys.exit(1)
ExitSuccess == 0      \* main returns

NoConfig == [t |-> "none"]

Object(v) == [kind |-> "object", value |-> v]
Array(v)  == [kind |-> "array", value |-> v]

\* lines 28-34
NotInstalled ==
    [ success |-> FALSE,
      error |-> "Crawl4AI not installed: No module named 'crawl4ai'. Run: pip install crawl4ai && crawl4ai-setup",
      url |-> IF ArgLen > 1 THEN Arg(1) ELSE "",
      status_code |-> 0, markdown |-> "" ]

\* lines 279-283
Usage ==
    [ success |-> FALSE,
      error |-> "Usage: python3 scrape.py <url> [config_json] OR python3 scrape.py --native-batch-crawl --urls <urls_json> --config <config_json>",
      help |-> "Single URL: python3.11 scrape.py https://example.com" ]

\* lines 290-294
BatchUsage ==
    [ success |-> FALSE,
      error |-> "Native batch mode requires: --native-batch-crawl --urls <urls_json> --config <config_json>",
      help |-> "Example: python3 scrape.py --native-batch-crawl --urls ..." ]

\* lines 307-311
EmptyList ==
    [ success |-> FALSE, error |-> "URLs must be a non-empty list",
      help |-> "Example: '[\"https://example.com\", \"https://google.com\"]'" ]

\* lines 318-322
InvalidBatchUrl(url, error_msg, u) ==
    [ success |-> FALSE,
      error |-> "Invalid URL '" \o url.s \o "': " \o error_msg,
      urls |-> u ]

\* lines 329-335: json.JSONDecodeError is a ValueError, so this handler,
\* the first of the three, is the one that takes a malformed JSON text
InvalidArguments(e) ==
    [ success |-> FALSE, error |-> "Invalid arguments: " \o e,
      help |-> "Check --urls and --config JSON format" ]

\* lines 343-348
BatchCrawlingError(e, u) ==
    [ success |-> FALSE, error |-> "Batch crawling error: " \o e, urls |-> u ]

\* lines 359-363
InvalidUrl(error_msg, url) ==
    [ success |-> FALSE, error |-> "Invalid URL: " \o error_msg, url |-> url ]

\* lines 371-375
InvalidJsonConfig(e, url) ==
    [ success |-> FALSE, error |-> "Invalid JSON config: " \o e, url |-> url ]

\* lines 383-387
Interrupted(url) ==
    [ success |-> FALSE, error |-> "Scraping interrupted by user", url |-> url ]

\* lines 390-394
UnexpectedError(e, url) ==
    [ success |-> FALSE, error |-> "Unexpected error: " \o e, url |-> url ]

(***************************************************************************)
(* main, batch mode, lines 297-323 with the handlers of lines 329-349:     *)
(* what the argument handling ends in.  rejected says whether main prints  *)
(* out and exits; otherwise batch_crawl_native is called with u, c.        *)
(***************************************************************************)
\* FirstStop validating the first URL of the list only
FirstStop_first(items) == IF Accepted(items[1]) THEN 0 ELSE 1

\* the first URL the validation loop stops at, 0 when it accepts them all
FirstStop(items) ==
    IF \A k \in 1..Len(items) : Accepted(items[k]) THEN 0
    ELSE CHOOSE k \in 1..Len(items) :
            /\ ~Accepted(items[k])
            /\ \A m \in 1..(k - 1) : Accepted(items[m])

\* out when nothing is printed by the argument handling
Nothing == [success |-> TRUE]

\* the local urls as a sequence, empty when it is not a list
Items(v) == IF v.t = "list" THEN v.items ELSE <<>>

Outcome(rejected, out, u, c) ==
    [ rejected |-> rejected, out |-> out, u |-> u, c |-> c ]

\* lines 316-323: validate_url(urls[k]) is v, which is not (True, "")
StoppedAt(u, c, k, v) ==
    IF v.exc # Null
      THEN Outcome(TRUE, BatchCrawlingError(v.exc, u), u.items, c)
      ELSE Outcome(TRUE, InvalidBatchUrl(u.items[k], v.msg, u), u.items, c)

\* lines 314-326: the validation loop stopped at urls[k], or at none (k = 0)
ValidatedAt(u, c, k) ==
    IF k = 0 THEN Outcome(FALSE, Nothing, u.items, c)
    ELSE StoppedAt(u, c, k, validate_url(u.items[k]))

ValidatedUrls(u, c) == ValidatedAt(u, c, FirstStop(u.items))

IndexError == "list index out of range"

\* lines 303-326: urls is parsed, config_options is c
ConfigParsed(u, c) ==
    IF c.t = "JSONDecodeError"
      THEN Outcome(TRUE, InvalidArguments(c.s), Items(u), NoConfig)
    ELSE IF u.t # "list" \/ Len(u.items) = 0
      THEN Outcome(TRUE, EmptyList, Items(u), c)
    ELSE ValidatedUrls(u, c)

\* lines 302-303: urls is u, the config text is at config_idx
UrlsParsed(u, config_idx) ==
    IF u.t = "JSONDecodeError"
      THEN Outcome(TRUE, InvalidArguments(u.s), <<>>, NoConfig)
    ELSE IF config_idx >= ArgLen
      THEN Outcome(TRUE, BatchCrawlingError(IndexError, u), Items(u), NoConfig)
    ELSE ConfigParsed(u, json_loads(Arg(config_idx)))

\* lines 299-302
BatchArgsAt(urls_idx, config_idx) ==
    IF urls_idx >= ArgLen
      THEN Outcome(TRUE, BatchCrawlingError(IndexError, [t |-> "list", items |-> <<>>]),
                   <<>>, NoConfig)
      ELSE UrlsParsed(json_loads(Arg(urls_idx)), config_idx)

BatchArgs == BatchArgsAt(ArgIndex("--urls") + 1, ArgIndex("--config") + 1)

(***************************************************************************)
(* main, single mode, lines 353-376.                                       *)
(***************************************************************************)
SingleConfigParsed(url, c) ==
    IF c.t = "JSONDecodeError"
      THEN Outcome(TRUE, InvalidJsonConfig(c.s, url), <<Str(url)>>, NoConfig)
      ELSE Outcome(FALSE, Nothing, <<Str(url)>>, c)

SingleValidated(url, v) ==
    IF ~v.ok
      THEN Outcome(TRUE, InvalidUrl(v.msg, url), <<Str(url)>>, NoConfig)
    ELSE IF ArgLen > 2
      THEN SingleConfigParsed(url, json_loads(Arg(2)))
    ELSE Outcome(FALSE, Nothing, <<Str(url)>>, NoConfig)

SingleStripped(url) == SingleValidated(url, validate_url(Str(url)))

SingleArgs == SingleStripped(strip(Arg(1)))

IsBatch == ArgLen >= 2 /\ Arg(1) = BatchFlag

(***************************************************************************)
(* The process.                                                            *)
(***************************************************************************)
Init ==
    /\ argv \in ArgvSamples
    /\ pc = "import"
    /\ stdout = <<>>
    /\ exitCode = Running
    /\ urls = <<>>
    /\ config_options = NoConfig
    /\ called = {}
    /\ network = {}
    /\ pending = {}
    /\ crawled = <<>>
    /\ results = <<>>
    /\ batch_exception = Null

\* print(json.dumps(v)) followed by the end of the process with code
Exit(out, code) ==
    /\ stdout' = stdout \o out
    /\ exitCode' = code
    /\ pc' = "done"

BatchVars == <<pending, crawled, results, batch_exception>>

\* lines 21-35: the library cannot be imported
ImportFails ==
    /\ pc = "import"
    /\ Exit(<<Object(NotInstalled)>>, ExitFailure)
    /\ UNCHANGED <<argv, urls, config_options, called, network, BatchVars>>

\* lines 21-26, 397-398: the imports succeed and main is entered
ImportOk ==
    /\ pc = "import"
    /\ pc' = "main"
    /\ UNCHANGED <<argv, stdout, exitCode, urls, config_options, called,
                   network, BatchVars>>

\* lines 278-284
MainUsage ==
    /\ pc = "main"
    /\ ArgLen < 2
    /\ Exit(<<Object(Usage)>>, ExitFailure)
    /\ UNCHANGED <<argv, urls, config_options, called, network, BatchVars>>

\* lines 287-295
MainBatchUsage ==
    /\ pc = "main"
    /\ IsBatch
    /\ ArgLen < 6 \/ ~InArgv("--urls") \/ ~InArgv("--config")
    /\ Exit(<<Object(BatchUsage)>>, ExitFailure)
    /\ UNCHANGED <<argv, urls, config_options, called, network, BatchVars>>

BatchArgsOk ==
    /\ pc = "main"
    /\ IsBatch
    /\ ~(ArgLen < 6 \/ ~InArgv("--urls") \/ ~InArgv("--config"))

\* the effect of the argument handling ending in outcome b with exit code
Rejected(b, code) ==
    /\ b.rejected
    /\ urls' = b.u
    /\ config_options' = b.c
    /\ Exit(<<Object(b.out)>>, code)
    /\ UNCHANGED <<argv, called, network, BatchVars>>

Accepts(b, function, next) ==
    /\ ~b.rejected
    /\ urls' = b.u
    /\ config_options' = b.c
    /\ called' = called \cup {function}
    /\ pc' = next
    /\ UNCHANGED <<argv, stdout, exitCode, network, BatchVars>>

\* MainBatchRejected without the sys.exit(1) of line 335: after printing
\* "Invalid arguments" main returns
MainBatchRejected_noexit ==
    /\ BatchArgsOk
    /\ Rejected(BatchArgs,
                IF startswith(BatchArgs.out.error, "Invalid arguments: ")
                  THEN ExitSuccess ELSE ExitFailure)

\* lines 297-323, 329-349: the argument handling of batch mode rejects
MainBatchRejected ==
    /\ BatchArgsOk
    /\ Rejected(BatchArgs, ExitFailure)

\* lines 297-326: the arguments are accepted and batch_crawl_native is called
MainBatchCall ==
    /\ BatchArgsOk
    /\ Accepts(BatchArgs, "batch_crawl_native", "batch_setup")

\* lines 353-376: the argument handling of single mode rejects
MainSingleRejected ==
    /\ pc = "main"
    /\ ArgLen >= 2 /\ ~IsBatch
    /\ Rejected(SingleArgs, ExitFailure)

\* lines 353-380: the arguments are accepted and scrape_url is called
MainSingleCall ==
    /\ pc = "main"
    /\ ArgLen >= 2 /\ ~IsBatch
    /\ Accepts(SingleArgs, "scrape_url", "single_setup")

(***************************************************************************)
(* Single mode: asyncio.run(scrape_url(url, config)), lines 185-260 and    *)
(* 378-395.                                                                *)
(***************************************************************************)
Url == urls[1].s

\* lines 220-228: `'css_selector' in config` raises when config is a number
ConfigNotIterable == "argument of type 'int' is not iterable"

ApplyConfigRaises == config_options.t = "num" /\ config_options.s # "0"

\* lines 187-232: the configuration is built and crawler.arun is awaited
ScrapeFetch ==
    /\ pc = "single_setup"
    /\ ~ApplyConfigRaises
    /\ pc' = "single_fetch"
    /\ network' = network \cup {1}
    /\ UNCHANGED <<argv, stdout, exitCode, urls, config_options, called, BatchVars>>

\* lines 232-249, 380-381: arun returns, the Result is built and printed
ScrapeReturns ==
    /\ pc = "single_fetch"
    /\ \E result \in CrawlResults :
         Exit(<<Object(IF ScrapeRaisesOn(result)
                         THEN ScrapeFailed(Url, NoLen)
                         ELSE ScrapeFormatted(result, Url))>>, ExitSuccess)
    /\ UNCHANGED <<argv, urls, config_options, called, network, BatchVars>>

\* lines 251-260, 380-381: an exception inside scrape_url's try
ScrapeRaises ==
    /\ \/ pc = "single_setup" /\ ApplyConfigRaises
          /\ Exit(<<Object(ScrapeFailed(Url, ConfigNotIterable))>>, ExitSuccess)
       \/ pc \in {"single_setup", "single_fetch"} /\ ~ApplyConfigRaises
          /\ Exit(<<Object(ScrapeFailed(Url, "boom"))>>, ExitSuccess)
    /\ UNCHANGED <<argv, urls, config_options, called, network, BatchVars>>

\* SingleInterrupt re-raising the KeyboardInterrupt after printing
SingleInterrupt_reraise ==
    /\ pc = "single_fetch"
    /\ Exit(<<Object(Interrupted(Url))>>, ExitSigint)
    /\ UNCHANGED <<argv, urls, config_options, called, network, BatchVars>>

\* lines 382-388: KeyboardInterrupt raised out of asyncio.run
SingleInterrupt ==
    /\ pc = "single_fetch"
    /\ Exit(<<Object(Interrupted(Url))>>, ExitFailure)
    /\ UNCHANGED <<argv, urls, config_options, called, network, BatchVars>>

\* lines 389-395: any other exception out of asyncio.run or json.dumps
SingleUnexpected ==
    /\ pc = "single_fetch"
    /\ Exit(<<Object(UnexpectedError("boom", Url))>>, ExitFailure)
    /\ UNCHANGED <<argv, urls, config_options, called, network, BatchVars>>

(***************************************************************************)
(* Batch mode: asyncio.run(batch_crawl_native(urls, config_options)),      *)
(* lines 37-183 and 326-327.                                               *)
(***************************************************************************)
N == Len(urls)

\* lines 44-46: config_options.get and getattr(CacheMode, ...) may raise
ConfigRaises ==
    config_options.t # "dict" \/ config_options.cache_mode # Absent

ConfigError ==
    IF config_options.t # "dict"
      THEN "'int' object has no attribute 'get'"
      ELSE config_options.cache_mode

\* lines 86-92, 139: the strategy and the delivery mode
Mode ==
    IF getattr(config_options.strategy, "browser") = "http"
      THEN IF config_options.stream_mode # Absent THEN "http_stream"
                                                  ELSE "http_gather"
      ELSE IF config_options.stream_mode # Absent THEN "browser_stream"
                                                  ELSE "browser_batch"

Fetching == {"http_stream", "http_gather", "browser_stream", "browser_batch"}

Orders(n) ==
    { f \in [1..n -> 1..n] : \A a, b \in 1..n : a # b => f[a] # f[b] }

\* lines 170-183 then 327: every URL gets the failed Result, main prints
BatchFails(e) ==
    /\ batch_exception' = e
    /\ results' = BatchFailed(e)
    /\ Exit(<<Array(BatchFailed(e))>>, ExitSuccess)

\* lines 42-91/138 raise: building the configuration or opening the crawler
BatchSetupRaises ==
    /\ pc = "batch_setup"
    /\ BatchFails(IF ConfigRaises THEN ConfigError ELSE "boom")
    /\ UNCHANGED <<argv, urls, config_options, called, network, pending, crawled>>

\* lines 42-95/122/142/156: the fetches of all URLs are handed to the library
BatchFetch ==
    /\ pc = "batch_setup"
    /\ ~ConfigRaises
    /\ pc' = Mode
    /\ network' = 1..N
    /\ pending' = 1..N
    /\ crawled' = [k \in 1..N |-> NotFetched]
    /\ UNCHANGED <<argv, stdout, exitCode, urls, config_options, called, results,
                   batch_exception>>

\* lines 96-118: the next fetch to complete is awaited and formatted
HttpStreamNext ==
    /\ pc = "http_stream"
    /\ \E j \in pending, result \in HttpOutcomes :
         /\ results' = Append(results, HttpStreamTurn(result, Len(results), j))
         /\ crawled' = [crawled EXCEPT ![j] = Fetched(result)]
         /\ pending' = pending \ {j}
    /\ UNCHANGED <<argv, pc, stdout, exitCode, urls, config_options, called, network,
                   batch_exception>>

\* lines 142-152: the next CrawlResult of the stream is formatted
ArunManyYields ==
    /\ pc = "browser_stream"
    /\ \E j \in pending, result \in BatchCrawlResults :
         IF BrowserRaises(result)
           THEN /\ BatchFails(NoRawMarkdown)
                /\ UNCHANGED pending
           ELSE /\ results' = Append(results, BrowserFormatted(result, urls[j].s))
                /\ pending' = pending \ {j}
                /\ UNCHANGED <<pc, stdout, exitCode, batch_exception>>
    /\ UNCHANGED <<argv, urls, config_options, called, network, crawled>>

\* lines 119, 153 then 327: the loop is over, results is returned and printed
StreamReturns ==
    /\ pc \in {"http_stream", "browser_stream"}
    /\ pending = {}
    /\ Exit(<<Array(results)>>, ExitSuccess)
    /\ UNCHANGED <<argv, urls, config_options, called, network, BatchVars>>

\* lines 122-135 then 327: gather returns the outcome of every fetch in
\* the order of tasks, the list is built and printed
HttpGatherReturns ==
    /\ pc = "http_gather"
    /\ \E http_results \in [1..N -> HttpOutcomes] :
         /\ results' = [k \in 1..N |->
                          HttpGatherFormatted(http_results[k], urls[k].s)]
         /\ crawled' = [k \in 1..N |-> Fetched(http_results[k])]
         /\ Exit(<<Array(results')>>, ExitSuccess)
    /\ pending' = {}
    /\ UNCHANGED <<argv, urls, config_options, called, network, batch_exception>>

\* lines 156-168 then 327: arun_many returns one CrawlResult per URL, in
\* an order of the library's choosing, the list is built and printed
ArunManyReturns ==
    /\ pc = "browser_batch"
    /\ \E order \in Orders(N), crawl_results \in [1..N -> BatchCrawlResults] :
         IF \E k \in 1..N : BrowserRaises(crawl_results[k])
           THEN BatchFails(NoRawMarkdown)
           ELSE /\ results' = [k \in 1..N |->
                      BrowserFormatted(crawl_results[k], urls[order[k]].s)]
                /\ Exit(<<Array(results')>>, ExitSuccess)
                /\ UNCHANGED batch_exception
    /\ pending' = {}
    /\ UNCHANGED <<argv, urls, config_options, called, network, crawled>>

\* lines 170-183: an exception of the library escapes the body mid-run
BatchRaises ==
    /\ pc \in Fetching
    /\ BatchFails("boom")
    /\ UNCHANGED <<argv, urls, config_options, called, network, pending, crawled>>

\* line 326: KeyboardInterrupt raised out of asyncio.run; it is not an
\* Exception, none of the handlers of lines 329-349 takes it
BatchInterrupt ==
    /\ pc \in Fetching
    /\ Exit(<<>>, ExitSigint)
    /\ UNCHANGED <<argv, urls, config_options, called, network, BatchVars>>

\* lines 343-349: an exception out of asyncio.run or json.dumps
BatchUnexpected ==
    /\ pc \in Fetching
    /\ Exit(<<Object(BatchCrawlingError("boom", [t |-> "list", items |-> urls]))>>,
            ExitFailure)
    /\ UNCHANGED <<argv, urls, config_options, called, network, BatchVars>>

Next ==
    \/ ImportFails
    \/ ImportOk
    \/ MainUsage
    \/ MainBatchUsage
    \/ MainBatchRejected
    \/ MainBatchCall
    \/ MainSingleRejected
    \/ MainSingleCall
    \/ ScrapeFetch
    \/ ScrapeReturns
    \/ ScrapeRaises
    \/ SingleInterrupt
    \/ SingleUnexpected
    \/ BatchSetupRaises
    \/ BatchFetch
    \/ HttpStreamNext
    \/ ArunManyYields
    \/ StreamReturns
    \/ HttpGatherReturns
    \/ ArunManyReturns
    \/ BatchRaises
    \/ BatchInterrupt
    \/ BatchUnexpected

Spec == Init /\ [][Next]_vars

(***************************************************************************)
(* Vocabulary of the properties.                                           *)
(***************************************************************************)
Done == pc = "done"

\* a Result object, as opposed to the error objects of main
IsResult(v) == "content_length" \in DOMAIN v

\* P holds of every Result written to standard output
EveryEmitted(P(_)) ==
    \A i \in 1..Len(stdout) :
        IF stdout[i].kind = "array"
          THEN \A k \in 1..Len(stdout[i].value) : P(stdout[i].value[k])
          ELSE IsResult(stdout[i].value) => P(stdout[i].value)

PrintedArray  == Len(stdout) = 1 /\ stdout[1].kind = "array"
PrintedObject == Len(stdout) = 1 /\ stdout[1].kind = "object"
PrintedError  == PrintedObject /\ ~IsResult(stdout[1].value)
PrintedResult == PrintedObject /\ IsResult(stdout[1].value)
ErrorIs(prefix) == PrintedError /\ startswith(stdout[1].value.error, prefix)

HttpBatchDone ==
    /\ Done /\ PrintedArray /\ batch_exception = Null
    /\ Mode \in {"http_stream", "http_gather"}

(***************************************************************************)
(* C1.  Every process invocation that terminates has written exactly one   *)
(* JSON value to standard output: an array of Results on a successful      *)
(* batch run, a single object otherwise; never zero values, never two.     *)
(* The code does not meet this: an interrupt during a batch fetch ends the *)
(* process with nothing written.                                           *)
(***************************************************************************)
C1_ExactlyOneJsonValue ==
    Done => /\ Len(stdout) = 1
            /\ stdout[1].kind = "array" => "batch_crawl_native" \in called

(***************************************************************************)
(* C2.  Every failure path of the argument handling (the process ends      *)
(* without scrape_url or batch_crawl_native having been called) prints one *)
(* JSON object with success false and a non-empty error string, and the    *)
(* exit code is not zero.                                                  *)
(***************************************************************************)
C2_ArgumentFailures ==
    (Done /\ called = {}) =>
        /\ PrintedObject
        /\ stdout[1].value.success = FALSE
        /\ Len(stdout[1].value.error) > 0
        /\ exitCode # 0

C2_Witness ==
    /\ Done /\ called = {} /\ IsBatch
    /\ ErrorIs("Invalid arguments: ")

(***************************************************************************)
(* C3.  The exit code is 0 on every run that printed Result output; it is  *)
(* 1 on argument errors, malformed JSON, an empty URL list, an invalid URL *)
(* or an exception reaching the top level of main.  As first stated, once  *)
(* main is entered it is 1 in no other case; main also exits with 1 when   *)
(* single mode is interrupted (and the module exits with 1 before main     *)
(* when the library cannot be imported).                                   *)
(***************************************************************************)
ListedFailure ==
    \/ ErrorIs("Usage: ")
    \/ ErrorIs("Native batch mode requires")
    \/ ErrorIs("Invalid arguments: ")
    \/ ErrorIs("Invalid JSON config: ")
    \/ ErrorIs("URLs must be a non-empty list")
    \/ ErrorIs("Invalid URL")
    \/ ErrorIs("Batch crawling error: ")
    \/ ErrorIs("Unexpected error: ")

InterruptedOrNotInstalled ==
    \/ ErrorIs("Scraping interrupted by user")
    \/ ErrorIs("Crawl4AI not installed")

C3_ExitCodes ==
    /\ (Done /\ (PrintedArray \/ PrintedResult)) => exitCode = 0
    /\ (Done /\ ListedFailure) => exitCode = 1
    /\ (exitCode = 1 /\ ~ErrorIs("Crawl4AI not installed")) => ListedFailure

\* C3 as amended: exit code 1 also on a single-mode interrupt and on a
\* failed import of the library, and in no other case.
C3_ExitCodesAmended ==
    /\ (Done /\ (PrintedArray \/ PrintedResult)) => exitCode = 0
    /\ (Done /\ (ListedFailure \/ InterruptedOrNotInstalled)) => exitCode = 1
    /\ exitCode = 1 => (ListedFailure \/ InterruptedOrNotInstalled)

C3_Witness ==
    /\ Done /\ exitCode = 1 /\ called = {"scrape_url"}
    /\ ErrorIs("Scraping interrupted by user")

(***************************************************************************)
(* C4.  A batch run that prints an array prints exactly N objects for a    *)
(* URL list of N entries, each with a boolean success, one Result per      *)
(* requested URL (duplicates counted), in every strategy and delivery mode.*)
(***************************************************************************)
C4_OneResultPerUrl ==
    (Done /\ PrintedArray) =>
        LET out == stdout[1].value IN
        /\ Len(out) = N
        /\ \A k \in 1..Len(out) : out[k].success \in BOOLEAN
        /\ \E f \in Orders(N) : \A k \in 1..N : out[k].url = urls[f[k]].s

C4_Witness ==
    /\ Done /\ PrintedArray /\ batch_exception = Null
    /\ Mode = "http_stream"
    /\ N = 2 /\ urls[1] # urls[2]

(***************************************************************************)
(* C5.  In the HTTP batch modes an exception raised by the fetch of one    *)
(* URL is isolated to that URL's Result: the URL whose fetch raised gets a *)
(* failed Result carrying that exception, and every other URL keeps the    *)
(* success, content and error its own fetch produced.  The code does not   *)
(* meet this in stream mode.                                               *)
(***************************************************************************)
ReportsOwnFetch(r, c, u) ==
    /\ r.url = u
    /\ IF c.exc # Null
         THEN /\ r.success = FALSE
              /\ r.markdown = ""
              /\ \E k \in 1..Len(r.error) :
                    SubSeq(r.error, k, Len(r.error)) = c.exc
         ELSE /\ r.success = c.ok
              /\ r.markdown = getattr(c.html, "")
              /\ r.error = c.error_message

C5_PerUrlIsolation ==
    (HttpBatchDone /\ \E j \in 1..N : crawled[j].exc # Null) =>
        \E f \in Orders(N) : \A k \in 1..N :
            ReportsOwnFetch(stdout[1].value[k], crawled[f[k]], urls[f[k]].s)

(***************************************************************************)
(* C6.  When the batch call fails as a whole, batch_crawl_native returns   *)
(* one failed Result per requested URL, in input order, each with success  *)
(* false, empty markdown, status_code 0, content_length 0, its own url and *)
(* the same error message.                                                 *)
(***************************************************************************)
C6_TotalFailure ==
    (Done /\ batch_exception # Null) =>
        /\ PrintedArray
        /\ Len(stdout[1].value) = N
        /\ \A k \in 1..N :
             LET r == stdout[1].value[k] IN
             /\ r.success = FALSE /\ r.markdown = ""
             /\ r.status_code = 0 /\ r.content_length = 0
             /\ r.url = urls[k].s
             /\ r.error = stdout[1].value[1].error
             /\ r.error = "Batch crawler exception: " \o batch_exception

C6_Witness ==
    /\ Done /\ batch_exception # Null
    /\ ~ConfigRaises
    /\ Mode = "http_stream"
    /\ N = 2 /\ urls[1] # urls[2]
    /\ Cardinality(pending) = 1

(***************************************************************************)
(* C7.  Every Result the program emits satisfies "error implies empty      *)
(* content": when its error is not null its markdown is the empty string.  *)
(* The code does not meet this in HTTP collect-all mode.                   *)
(***************************************************************************)
ErrorImpliesEmpty(r) == r.error # Null => r.markdown = ""

C7_ErrorImpliesEmptyContent == EveryEmitted(ErrorImpliesEmpty)

(***************************************************************************)
(* C8.  Every Result the program emits has content_length equal to the     *)
(* length of its markdown, whatever the shape of the library's result.     *)
(***************************************************************************)
LengthOfContent(r) == r.content_length = Len(r.markdown)

C8_ContentLength == EveryEmitted(LengthOfContent)

C8_Witness ==
    /\ Done /\ PrintedArray /\ batch_exception = Null
    /\ Mode = "http_gather"
    /\ \E k \in 1..N : /\ stdout[1].value[k].markdown = Html
                       /\ stdout[1].value[k].content_length = Len(Html)
    /\ \E k \in 1..N : /\ stdout[1].value[k].markdown = ""
                       /\ stdout[1].value[k].success

(***************************************************************************)
(* C9.  Invalid URLs short-circuit before any network activity: when       *)
(* validate_url rejects the URL of single mode, or one URL of the batch    *)
(* list, neither scrape_url nor batch_crawl_native is ever called and no   *)
(* URL is fetched.                                                         *)
(***************************************************************************)
C9_ShortCircuit ==
    (\E k \in 1..Len(urls) : ~Accepted(urls[k])) =>
        /\ called = {}
        /\ network = {}

C9_Witness ==
    /\ Done /\ IsBatch /\ called = {} /\ network = {}
    /\ Len(urls) = 2 /\ Accepted(urls[1]) /\ ~Accepted(urls[2])
    /\ ErrorIs("Invalid URL '")

(***************************************************************************)
(* C10.  In the HTTP batch modes each emitted Result reports the outcome   *)
(* of the fetch of the URL named in its url field: success is true exactly *)
(* when that fetch completed without raising and did not report success    *)
(* false, whatever the order of completion.  The code does not meet this   *)
(* in stream mode.                                                         *)
(***************************************************************************)
C10_SuccessOfOwnFetch ==
    HttpBatchDone =>
        \E f \in Orders(N) : \A k \in 1..N :
            /\ stdout[1].value[k].url = urls[f[k]].s
            /\ stdout[1].value[k].success = crawled[f[k]].ok

====
